---- MODULE Spec2Model ----
(***************************************************************************)
(* Session persistence of pinata (cmd/game.go): loadPGN, savePGN,          *)
(* GetTagPair, isGameOver and humanColor over the session globals          *)
(* gHumanIsBlack, gEngineBinary and the current game.  The chess library   *)
(* is modelled by the calls game.go makes on it: tag pairs, the PGN text   *)
(* of a game, its outcome and method.                                      *)
(***************************************************************************)
EXTENDS Integers, Sequences, FiniteSets, TLC

VARIABLES
    gHumanIsBlack,  \* the human plays Black
    gEngineBinary,  \* name of the engine binary
    gGame,          \* the current game, NilGame when there is none
    fs,             \* content of the file at each path
    openFiles,      \* number of files savePGN holds open
    reports,        \* what isGameOver returned and printed since the last move
    saved,          \* per path: the settings its file was saved under
    last            \* the latest loadPGN or savePGN call and its result

vars == <<gHumanIsBlack, gEngineBinary, gGame, fs, openFiles, reports, saved, last>>

(***************************************************************************)
(* Bounds of the model.                                                    *)
(***************************************************************************)
MaxMoves == 2
MaxReports == 2

(***************************************************************************)
(* Values.                                                                 *)
(***************************************************************************)
\* chess.Outcome: its String() is the value itself.
NoOutcome == "*"
WhiteWon == "1-0"
BlackWon == "0-1"
Draw == "1/2-1/2"
Outcomes == {NoOutcome, WhiteWon, BlackWon, Draw}

NoMethod == "NoMethod"
MethodsOf(outcome) ==
    IF outcome = NoOutcome THEN {NoMethod}
    ELSE IF outcome = Draw THEN {"Stalemate"}
    ELSE {"Checkmate"}

\* The line played, ply by ply.
MoveText == <<"e4", "e5", "Nf3", "Nc6">>

\* The destination in a directory that does not exist can be neither read
\* nor created.
Paths == {"game.pgn", "nodir/game.pgn"}
DirExists(filename) == filename = "game.pgn"

\* gEngineBinary when a session starts: unset (the zero value of the string)
\* or the name of an engine.  Other values come from the tags of loaded files.
EngineNames == {"", "stockfish"}

\* time.Now() as year, month, day.
Dates == {<<2020, 5, 9>>, <<2020, 11, 23>>}

(***************************************************************************)
(* Tag pairs of a game: a function from the keys present to their values.  *)
(***************************************************************************)
NoTags == [k \in {} |-> ""]

\* chess.Game.AddTagPair: overwrite or insert.
AddTagPair(tags, key, value) ==
    [k \in (DOMAIN tags) \cup {key} |-> IF k = key THEN value ELSE tags[k]]

NilGame == [nil |-> TRUE, tags |-> NoTags, moves |-> <<>>,
            outcome |-> NoOutcome, method |-> NoMethod]

\* chess.NewGame() without options.
FreshGame == [nil |-> FALSE, tags |-> NoTags, moves |-> <<>>,
              outcome |-> NoOutcome, method |-> NoMethod]

\* Lookup tag pair
GetTagPair(game, key) ==
    IF ~game.nil
    THEN IF key \in DOMAIN game.tags THEN game.tags[key] ELSE ""
    ELSE ""

(***************************************************************************)
(* PGN text: the tag-pair lines in order, the move text, the result token. *)
(***************************************************************************)
KeyOrder == <<"Event", "Annotator", "Date", "Result", "White", "Black">>

RECURSIVE TagLines(_, _)
TagLines(tags, i) ==
    IF i > Len(KeyOrder) THEN <<>>
    ELSE IF KeyOrder[i] \in DOMAIN tags
         THEN <<<<KeyOrder[i], tags[KeyOrder[i]]>>>> \o TagLines(tags, i + 1)
         ELSE TagLines(tags, i + 1)

\* game.String()
GameString(game) ==
    [kind |-> "pgn", lines |-> TagLines(game.tags, 1),
     moves |-> game.moves, result |-> game.outcome]

RECURSIVE ParseTags(_, _)
ParseTags(lines, i) ==
    IF i = 0 THEN NoTags
    ELSE AddTagPair(ParseTags(lines, i - 1), lines[i][1], lines[i][2])

NoFile == [kind |-> "none", lines |-> <<>>, moves |-> <<>>, result |-> NoOutcome]
Garbage == [kind |-> "garbage", lines |-> <<>>, moves |-> <<>>, result |-> NoOutcome]
\* What a failed write leaves behind: a truncated text.
Partial == [kind |-> "partial", lines |-> <<>>, moves |-> <<>>, result |-> NoOutcome]

PgnText(lines, moves, result) ==
    [kind |-> "pgn", lines |-> lines, moves |-> moves, result |-> result]

\* Well-formed notation whose history cannot seed a game.
Unplayable == [kind |-> "unplayable",
               lines |-> <<<<"Annotator", "pinata">>, <<"White", "Human">>,
                           <<"Black", "stockfish">>>>,
               moves |-> <<"e4">>, result |-> NoOutcome]

\* Files written by hand or by another program: tag-pair lines for
\* Annotator, White and Black, each present or not.
Line(key, values) == {<<>>} \cup {<<<<key, v>>>> : v \in values}

Crafted(annotators, whites, blacks) ==
    {PgnText(a \o w \o b, <<>>, NoOutcome) :
        a \in annotators, w \in whites, b \in blacks}

HandCrafted ==
    {Garbage, Unplayable}
    \cup Crafted({<<<<"Annotator", "pinata">>>>},
                 {<<<<"White", v>>>> : v \in {"Human", "stockfish"}},
                 {<<<<"Black", v>>>> : v \in {"Human", "gnuchess"}})
    \cup Crafted(Line("Annotator", {"Pinata"}),
                 {<<<<"White", "stockfish">>>>}, {<<<<"Black", "Human">>>>})
    \cup Crafted({<<<<"Annotator", "pinata">>>>},
                 Line("White", {""}), {<<<<"Black", "Human">>>>})
    \cup Crafted({<<<<"Annotator", "pinata">>>>},
                 {<<<<"White", "Human">>>>}, Line("Black", {""}))
    \cup {PgnText(<<<<"Event", "Club">>, <<"Annotator", "pinata">>,
                    <<"White", "stockfish">>, <<"Black", "Human">>>>,
                  <<"e4">>, BlackWon)}

(***************************************************************************)
(* The calls loadPGN makes: ioutil.ReadFile, chess.PGN, chess.NewGame.     *)
(***************************************************************************)
ReadFile(filename) ==
    IF DirExists(filename) /\ fs[filename].kind # "none"
    THEN [err |-> FALSE, data |-> fs[filename]]
    ELSE [err |-> TRUE, data |-> NoFile]

\* chess.PGN: a truncated text either fails to parse or parses as a game
\* without tags or moves (parses).
PGN(data, parses) ==
    IF data.kind = "garbage" \/ (data.kind = "partial" /\ ~parses)
    THEN [err |-> TRUE, pgn |-> NoFile]
    ELSE IF data.kind = "partial"
         THEN [err |-> FALSE, pgn |-> PgnText(<<>>, <<>>, NoOutcome)]
         ELSE [err |-> FALSE, pgn |-> data]

\* chess.NewGame(pgn): the tag pairs, the moves replayed, the outcome; the
\* method is whatever the library derives for that outcome.
NewGame(pgn, method) ==
    IF pgn.kind = "unplayable" THEN NilGame
    ELSE [nil |-> FALSE, tags |-> ParseTags(pgn.lines, Len(pgn.lines)),
          moves |-> pgn.moves, outcome |-> pgn.result, method |-> method]

(***************************************************************************)
(* loadPGN                                                                 *)
(***************************************************************************)
\* Variant of Rejected: a file is turned away only when both player tags
\* are empty.
RejectedBothEmpty(game) ==
    LET tpAnnotator == GetTagPair(game, "Annotator")
        tpWhite == GetTagPair(game, "White")
        tpBlack == GetTagPair(game, "Black")
    IN  tpAnnotator # "pinata" \/ (tpWhite = "" /\ tpBlack = "")

\* Only load Pinata generated PGN files.
Rejected(game) ==
    LET tpAnnotator == GetTagPair(game, "Annotator")
        tpWhite == GetTagPair(game, "White")
        tpBlack == GetTagPair(game, "Black")
    IN  tpAnnotator # "pinata" \/ tpWhite = "" \/ tpBlack = ""

\* Variant of LoadSettings: the White tag is tested first.
LoadSettingsWhiteFirst(game) ==
    LET tpWhite == GetTagPair(game, "White")
        tpBlack == GetTagPair(game, "Black")
    IN  IF tpWhite = "Human"
        THEN [humanIsBlack |-> FALSE, engineBinary |-> tpBlack,
              msg |-> <<"You are playing", "White", "against", tpBlack>>]
        ELSE [humanIsBlack |-> TRUE, engineBinary |-> tpWhite,
              msg |-> <<"You are playing", "Black", "against", tpWhite>>]

\* Load previous settings.
LoadSettings(game) ==
    LET tpWhite == GetTagPair(game, "White")
        tpBlack == GetTagPair(game, "Black")
    IN  IF tpBlack = "Human"
        THEN [humanIsBlack |-> TRUE, engineBinary |-> tpWhite,
              msg |-> <<"You are playing", "Black", "against", tpWhite>>]
        ELSE [humanIsBlack |-> FALSE, engineBinary |-> tpBlack,
              msg |-> <<"You are playing", "White", "against", tpBlack>>]

\* A return of loadPGN that leaves the settings alone.
LoadFails(msg) ==
    [game |-> NilGame, humanIsBlack |-> gHumanIsBlack,
     engineBinary |-> gEngineBinary, msg |-> msg]

\* Variant of loadPGN: the settings are taken from the tags before the file
\* is checked to be Pinata's.
loadPGNSettingsFirst(filename, parses, method) ==
    LET pgnDat == ReadFile(filename)
        pgn == PGN(pgnDat.data, parses)
        game == NewGame(pgn.pgn, method)
    IN  IF pgnDat.err THEN LoadFails(<<"Unable to read", filename>>)
        ELSE IF pgn.err THEN LoadFails(<<filename, "is not a valid PGN file.">>)
        ELSE IF game.nil
             THEN LoadFails(<<"Unable to initialize a new game from", filename>>)
        ELSE LET s == LoadSettings(game)
             IN  IF Rejected(game)
                 THEN [game |-> NilGame, humanIsBlack |-> s.humanIsBlack,
                       engineBinary |-> s.engineBinary,
                       msg |-> <<filename, "is not generated by Pinata.">>]
                 ELSE [game |-> game, humanIsBlack |-> s.humanIsBlack,
                       engineBinary |-> s.engineBinary, msg |-> s.msg]

\* Start a game from a PGN file
loadPGN(filename, parses, method) ==
    LET pgnDat == ReadFile(filename)
        pgn == PGN(pgnDat.data, parses)
        game == NewGame(pgn.pgn, method)
    IN  IF pgnDat.err THEN LoadFails(<<"Unable to read", filename>>)
        ELSE IF pgn.err THEN LoadFails(<<filename, "is not a valid PGN file.">>)
        ELSE IF game.nil
             THEN LoadFails(<<"Unable to initialize a new game from", filename>>)
        ELSE IF Rejected(game)
             THEN LoadFails(<<filename, "is not generated by Pinata.">>)
        ELSE LET s == LoadSettings(game)
             IN  [game |-> game, humanIsBlack |-> s.humanIsBlack,
                  engineBinary |-> s.engineBinary, msg |-> s.msg]

(***************************************************************************)
(* savePGN                                                                 *)
(***************************************************************************)
humanColor(humanIsBlack) == IF humanIsBlack THEN "Black" ELSE "White"

Pad2(n) == IF n < 10 THEN "0" \o ToString(n) ELSE ToString(n)

\* fmt.Sprintf("%d-%02d-%02d", year, month, day)
FormatDate(now) == ToString(now[1]) \o "-" \o Pad2(now[2]) \o "-" \o Pad2(now[3])

\* Variant of SaveTags: the human marker goes to the other side.
SaveTagsSwapped(game, now) ==
    LET t1 == AddTagPair(game.tags, "Annotator", "pinata")
        t2 == AddTagPair(t1, "Date", FormatDate(now))
        t3 == AddTagPair(t2, "Result", game.outcome)
        t5 == IF humanColor(gHumanIsBlack) = "White"
              THEN AddTagPair(AddTagPair(t3, "White", gEngineBinary), "Black", "Human")
              ELSE AddTagPair(AddTagPair(t3, "White", "Human"), "Black", gEngineBinary)
    IN  [game EXCEPT !.tags = t5]

\* Variant of SaveTags: the tag pairs are rebuilt from nothing.
SaveTagsRebuilt(game, now) ==
    LET t1 == AddTagPair(NoTags, "Annotator", "pinata")
        t2 == AddTagPair(t1, "Date", FormatDate(now))
        t3 == AddTagPair(t2, "Result", game.outcome)
        t5 == IF humanColor(gHumanIsBlack) = "White"
              THEN AddTagPair(AddTagPair(t3, "White", "Human"), "Black", gEngineBinary)
              ELSE AddTagPair(AddTagPair(t3, "White", gEngineBinary), "Black", "Human")
    IN  [game EXCEPT !.tags = t5]

\* Generate PGN content.
SaveTags(game, now) ==
    LET t1 == AddTagPair(game.tags, "Annotator", "pinata")
        t2 == AddTagPair(t1, "Date", FormatDate(now))
        t3 == AddTagPair(t2, "Result", game.outcome)
        t5 == IF humanColor(gHumanIsBlack) = "White"
              THEN AddTagPair(AddTagPair(t3, "White", "Human"), "Black", gEngineBinary)
              ELSE AddTagPair(AddTagPair(t3, "White", gEngineBinary), "Black", "Human")
    IN  [game EXCEPT !.tags = t5]

\* Variant of savePGN: the tag pairs are set before the file is created.
savePGNTagsFirst(game, filename, createOk, writeOk, now) ==
    LET tagged == SaveTags(game, now)
    IN  IF ~(createOk /\ DirExists(filename))
        THEN [game |-> tagged, file |-> fs[filename], open |-> openFiles,
              err |-> TRUE, msg |-> <<"Unable to create", filename>>]
        ELSE IF ~writeOk
             THEN [game |-> tagged, file |-> Partial, open |-> openFiles,
                   err |-> TRUE, msg |-> <<"Unable to save the game to", filename>>]
             ELSE [game |-> tagged, file |-> GameString(tagged), open |-> openFiles,
                   err |-> FALSE, msg |-> <<>>]

\* Variant of savePGN: the file is closed after a successful write only.
savePGNCloseOnSuccess(game, filename, createOk, writeOk, now) ==
    IF ~(createOk /\ DirExists(filename))
    THEN [game |-> game, file |-> fs[filename], open |-> openFiles,
          err |-> TRUE, msg |-> <<"Unable to create", filename>>]
    ELSE LET opened == openFiles + 1
             tagged == SaveTags(game, now)
         IN  IF ~writeOk
             THEN [game |-> tagged, file |-> Partial, open |-> opened,
                   err |-> TRUE, msg |-> <<"Unable to save the game to", filename>>]
             ELSE [game |-> tagged, file |-> GameString(tagged), open |-> opened - 1,
                   err |-> FALSE, msg |-> <<>>]

\* Save the game to a PGN file.  createOk, writeOk: whether os.Create and
\* file.WriteString succeed.  Returns the game, the file's content, the
\* number of open files and the error.
savePGN(game, filename, createOk, writeOk, now) ==
    IF ~(createOk /\ DirExists(filename))
    THEN [game |-> game, file |-> fs[filename], open |-> openFiles,
          err |-> TRUE, msg |-> <<"Unable to create", filename>>]
    ELSE LET opened == openFiles + 1
             tagged == SaveTags(game, now)
             closed == opened - 1        \* defer file.Close()
         IN  IF ~writeOk
             THEN [game |-> tagged, file |-> Partial, open |-> closed,
                   err |-> TRUE, msg |-> <<"Unable to save the game to", filename>>]
             ELSE [game |-> tagged, file |-> GameString(tagged), open |-> closed,
                   err |-> FALSE, msg |-> <<>>]

(***************************************************************************)
(* isGameOver: the value returned and the line printed.                    *)
(***************************************************************************)
\* Variant of isGameOver: a drawn game is not reported as over.
isGameOverDrawGoesOn(game) ==
    IF game.outcome = NoOutcome \/ game.outcome = Draw
    THEN [over |-> FALSE, msg |-> <<>>, game |-> game]
    ELSE IF game.outcome = WhiteWon
         THEN [over |-> TRUE, msg |-> <<"White Won", game.method>>, game |-> game]
    ELSE IF game.outcome = BlackWon
         THEN [over |-> TRUE, msg |-> <<"Black Won", game.method>>, game |-> game]
    ELSE [over |-> TRUE, msg |-> <<"panic", game.outcome>>, game |-> game]

\* game.Outcome() and game.Method() read the game; it is returned as it is
\* left.
isGameOver(game) ==
    IF game.outcome = NoOutcome
    THEN [over |-> FALSE, msg |-> <<>>, game |-> game]
    ELSE IF game.outcome = Draw
         THEN [over |-> TRUE, msg |-> <<"Game Draw", game.method>>, game |-> game]
    ELSE IF game.outcome = WhiteWon
         THEN [over |-> TRUE, msg |-> <<"White Won", game.method>>, game |-> game]
    ELSE IF game.outcome = BlackWon
         THEN [over |-> TRUE, msg |-> <<"Black Won", game.method>>, game |-> game]
    ELSE [over |-> TRUE, msg |-> <<"panic", game.outcome>>, game |-> game]

(***************************************************************************)
(* The session.                                                            *)
(***************************************************************************)
NotSaved == [set |-> FALSE, humanIsBlack |-> FALSE, engineBinary |-> ""]

\* last: the latest call of loadPGN or savePGN, with what it returned and
\* printed, until something else happens.
Last(op, filename, err, msg) ==
    [op |-> op, path |-> filename, err |-> err, msg |-> msg]

Idle == Last("", "", FALSE, <<>>)

Init ==
    /\ gHumanIsBlack \in BOOLEAN
    /\ gEngineBinary \in EngineNames
    /\ gGame = NilGame
    /\ fs = [p \in Paths |-> NoFile]
    /\ openFiles = 0
    /\ reports = <<>>
    /\ saved = [p \in Paths |-> NotSaved]
    /\ last = Idle

\* A new session starts from the initial position.
NewSession ==
    /\ gGame.nil
    /\ gGame' = FreshGame
    /\ reports' = <<>>
    /\ last' = Idle
    /\ UNCHANGED <<gHumanIsBlack, gEngineBinary, fs, openFiles, saved>>

\* gGame = loadPGN(filename)
Load(filename) ==
    \E parses \in IF fs[filename].kind = "partial" THEN BOOLEAN ELSE {TRUE},
       method \in MethodsOf(fs[filename].result) :
        LET r == loadPGN(filename, parses, method)
        IN  /\ gGame' = r.game
            /\ gHumanIsBlack' = r.humanIsBlack
            /\ gEngineBinary' = r.engineBinary
            /\ reports' = <<>>
            /\ last' = Last("load", filename, r.game.nil, r.msg)
            /\ UNCHANGED <<fs, openFiles, saved>>

\* savePGN(gGame, filename)
Save(filename) ==
    /\ ~gGame.nil
    /\ \E createOk \in BOOLEAN, writeOk \in BOOLEAN, now \in Dates :
        LET r == savePGN(gGame, filename, createOk, writeOk, now)
        IN  /\ gGame' = r.game
            /\ fs' = [fs EXCEPT ![filename] = r.file]
            /\ openFiles' = r.open
            /\ saved' = [saved EXCEPT ![filename] =
                            IF ~r.err
                            THEN [set |-> TRUE, humanIsBlack |-> gHumanIsBlack,
                                  engineBinary |-> gEngineBinary]
                            ELSE IF r.file = fs[filename] THEN @ ELSE NotSaved]
            /\ last' = Last("save", filename, r.err, r.msg)
            /\ UNCHANGED <<gHumanIsBlack, gEngineBinary, reports>>

\* The game loop applies a move; the library decides the outcome.
Move ==
    /\ ~gGame.nil
    /\ gGame.outcome = NoOutcome
    /\ Len(gGame.moves) < MaxMoves
    /\ \E outcome \in Outcomes :
        \E method \in MethodsOf(outcome) :
            gGame' = [gGame EXCEPT !.moves = Append(@, MoveText[Len(@) + 1]),
                                   !.outcome = outcome, !.method = method]
    /\ reports' = <<>>
    /\ last' = Idle
    /\ UNCHANGED <<gHumanIsBlack, gEngineBinary, fs, openFiles, saved>>

\* isGameOver(gGame)
GameOver ==
    /\ ~gGame.nil
    /\ Len(reports) < MaxReports
    /\ LET r == isGameOver(gGame)
       IN  /\ gGame' = r.game
           /\ reports' = Append(reports, [over |-> r.over, msg |-> r.msg])
           /\ last' = Idle
    /\ UNCHANGED <<gHumanIsBlack, gEngineBinary, fs, openFiles, saved>>

\* Between sessions somebody else writes the file.
Edit(filename) ==
    /\ gGame.nil
    /\ DirExists(filename)
    /\ \E content \in HandCrafted : fs' = [fs EXCEPT ![filename] = content]
    /\ saved' = [saved EXCEPT ![filename] = NotSaved]
    /\ last' = Idle
    /\ UNCHANGED <<gHumanIsBlack, gEngineBinary, gGame, openFiles, reports>>

\* The process exits and pinata is started again: the files stay, the
\* settings are those of the new command line.
Restart ==
    /\ ~gGame.nil
    /\ gHumanIsBlack' \in BOOLEAN
    /\ gEngineBinary' \in EngineNames
    /\ gGame' = NilGame
    /\ openFiles' = 0
    /\ reports' = <<>>
    /\ last' = Idle
    /\ UNCHANGED <<fs, saved>>

Next ==
    \/ NewSession
    \/ \E filename \in Paths : Load(filename)
    \/ \E filename \in Paths : Save(filename)
    \/ Move
    \/ GameOver
    \/ \E filename \in Paths : Edit(filename)
    \/ Restart

Spec == Init /\ [][Next]_vars

(***************************************************************************)
(* Properties.                                                             *)
(***************************************************************************)
\* The value of the first tag-pair line of a file with that key, "" without one.
FileTag(file, key) ==
    LET at == {i \in 1..Len(file.lines) : file.lines[i][1] = key}
    IN  IF at = {} THEN ""
        ELSE file.lines[CHOOSE i \in at : \A j \in at : i <= j][2]

LoadedFile == fs[last.path]
Loaded == last.op = "load" /\ ~gGame.nil
White == GetTagPair(gGame, "White")
Black == GetTagPair(gGame, "Black")
Notice == <<"You are playing", humanColor(gHumanIsBlack), "against", gEngineBinary>>

\* A valid session configuration: the engine identifier names an engine,
\* so it is neither empty nor the human marker.
ValidConfig(c) == c.engineBinary # "" /\ c.engineBinary # "Human"

\* C1: a file written by a successful savePGN under a valid configuration
\* and loaded afterwards gives a game, and the settings the save was made
\* under.
C1_RoundTrip ==
    (last.op = "load" /\ saved[last.path].set /\ ValidConfig(saved[last.path]))
        => /\ ~gGame.nil
           /\ gHumanIsBlack = saved[last.path].humanIsBlack
           /\ gEngineBinary = saved[last.path].engineBinary

C1_Witness ==
    /\ last.op = "load"
    /\ saved[last.path].set
    /\ ValidConfig(saved[last.path])
    /\ saved[last.path].humanIsBlack
    /\ Len(gGame.moves) > 0

\* C2: a readable, well-formed file gives a game only if its Annotator is
\* "pinata" and its White and Black are both non-empty, and then it does
\* unless the game cannot be initialised.
C2_LoadGate ==
    (last.op = "load" /\ LoadedFile.kind \in {"pgn", "unplayable"})
        => LET ok == /\ FileTag(LoadedFile, "Annotator") = "pinata"
                     /\ FileTag(LoadedFile, "White") # ""
                     /\ FileTag(LoadedFile, "Black") # ""
           IN  /\ ~gGame.nil => ok
               /\ ~ok => (gGame.nil /\ last.err)
               /\ (ok /\ LoadedFile.kind = "pgn") => ~gGame.nil

C2_Witness ==
    /\ last.op = "load"
    /\ LoadedFile.kind = "pgn"
    /\ FileTag(LoadedFile, "Annotator") = "pinata"
    /\ FileTag(LoadedFile, "White") = ""
    /\ FileTag(LoadedFile, "Black") = "Human"
    /\ gGame.nil

\* C3: after an accepted load, Black = "Human" gives humanIsBlack and the
\* White tag as engine; White = "Human" gives ~humanIsBlack and the Black
\* tag as engine.
C3_HumanSideDecoding ==
    Loaded => /\ Black = "Human" => (gHumanIsBlack /\ gEngineBinary = White)
              /\ White = "Human" => (~gHumanIsBlack /\ gEngineBinary = Black)

C5_TagInvariant ==
    (Loaded \/ (last.op = "save" /\ ~last.err))
        => ((White = "Human") /\ (Black # "Human"))
           \/ ((White # "Human") /\ (Black = "Human"))

\* C6: a load that returns no game leaves humanIsBlack and engineBinary as
\* they were, and reports why.
C6_FailedLoadFrame ==
    [][(last'.op = "load" /\ gGame'.nil)
          => /\ gHumanIsBlack' = gHumanIsBlack
             /\ gEngineBinary' = gEngineBinary
             /\ last'.err
             /\ last'.msg # <<>>]_vars

C6_Witness ==
    /\ last.op = "load"
    /\ gGame.nil
    /\ last.msg = <<last.path, "is not generated by Pinata.">>
    /\ FileTag(LoadedFile, "Black") = "Human"
    /\ ~gHumanIsBlack

\* C7: a save that cannot create its file returns the error, and changes no
\* file and no tag of the game.
C7_CreateFailureFrame ==
    [][(last'.op = "save" /\ last'.msg = <<"Unable to create", last'.path>>)
          => /\ last'.err
             /\ fs' = fs
             /\ gGame' = gGame]_vars

C7_Witness ==
    /\ last.op = "save"
    /\ last.msg = <<"Unable to create", last.path>>
    /\ last.path = "game.pgn"
    /\ fs[last.path].kind = "pgn"
    /\ DOMAIN gGame.tags = {}

\* C8: every report made since the last move says over exactly when the
\* outcome is not undecided, with the line of that outcome, the game is as
\* it was, and all these reports are the same.
C8_Report(r) ==
    /\ r.over = (gGame.outcome \in {Draw, WhiteWon, BlackWon})
    /\ gGame.outcome = NoOutcome => r.msg = <<>>
    /\ gGame.outcome = Draw => r.msg = <<"Game Draw", gGame.method>>
    /\ gGame.outcome = WhiteWon => r.msg = <<"White Won", gGame.method>>
    /\ gGame.outcome = BlackWon => r.msg = <<"Black Won", gGame.method>>

C8_OutcomeReporter ==
    /\ [](\A i \in 1..Len(reports) : C8_Report(reports[i]) /\ reports[i] = reports[1])
    /\ [][Len(reports') > Len(reports) => gGame' = gGame]_vars

C8_Witness == Len(reports) = 2 /\ gGame.outcome = Draw

\* C9: a save changes the game in the tags Annotator, Date, Result, White
\* and Black only, and leaves the settings alone.
SavedKeys == {"Annotator", "Date", "Result", "White", "Black"}

C9_SaveFrame ==
    [][last'.op = "save"
          => /\ gGame'.nil = gGame.nil
             /\ gGame'.moves = gGame.moves
             /\ gGame'.outcome = gGame.outcome
             /\ gGame'.method = gGame.method
             /\ (DOMAIN gGame'.tags) \ SavedKeys = (DOMAIN gGame.tags) \ SavedKeys
             /\ \A k \in (DOMAIN gGame.tags) \ SavedKeys :
                    gGame'.tags[k] = gGame.tags[k]
             /\ gHumanIsBlack' = gHumanIsBlack
             /\ gEngineBinary' = gEngineBinary]_vars

C9_Witness ==
    /\ last.op = "save"
    /\ last.msg = <<"Unable to save the game to", last.path>>
    /\ GetTagPair(gGame, "Event") = "Club"
    /\ GetTagPair(gGame, "Date") # ""

\* C10: no file opened by savePGN is open once it has returned.
C10_HandlesClosed == openFiles = 0

C10_Witness ==
    /\ last.op = "save"
    /\ last.msg = <<"Unable to save the game to", last.path>>
    /\ fs[last.path] = Partial

====
